---- MODULE Spec2Model ----
(***************************************************************************)
(* Model of one call of load_dataset of the two fine-tuning bolts          *)
(*   HuggingFaceClassificationFineTuner       (huggingface/classification) *)
(*   HuggingFaceCommonsenseReasoningFineTuner (commonsense_reasoning)      *)
(* The state is the bolt (tokenizer, model configuration, label_to_id),    *)
(* the directory the call reads, the locals of the call (data, the loop    *)
(* position, the handles it holds) and the way the call ends.              *)
(***************************************************************************)
EXTENDS Integers, Sequences, FiniteSets, TLC

\* ---------------------------------------------------------------- bounds
MaxFiles == 2
MaxRecs == 2

\* ------------------------------------------------------------ vocabulary
Tasks == {"classification", "commonsense"}

\* The columns each loader reads (the SELECT of the .db branch names them).
Required(t) ==
  IF t = "classification" THEN {"text", "label"}
  ELSE {"premise", "hypothesis", "label"}

\* The first text column, the one handed to the tokenizer first.
Primary(t) == IF t = "classification" THEN "text" ELSE "premise"

\* Label values of the input files (strings for classification, the
\* numerals 0 and 1 of the docstring for the pairwise task).
LabelsOf(t) == IF t = "classification" THEN {"pos", "neg"} ELSE {"0", "1"}

\* The value pandas puts in a cell whose column the record does not have.
Null == "null"

\* Python's None for the optional label_to_id, and a present mapping.
EmptyMap == [x \in {} |-> 0]
None == [some |-> FALSE, val |-> EmptyMap]
Some(f) == [some |-> TRUE, val |-> f]

\* File name suffixes: ten recognised branches of the elif chain, drawn
\* here by one name per kind of decoder, and one name no branch matches.
WithOpenLineExts == {"jsonl"}
WithOpenWholeExts == {"json", "yaml", "yml"}
TableExts == {"csv", "parquet", "tsv", "xls", "xlsx", "feather"}
XmlExts == {"xml"}
DbExts == {"db"}
Recognized ==
  WithOpenLineExts \cup WithOpenWholeExts \cup TableExts \cup XmlExts \cup DbExts

\* The suffixes the directories of the model are built from.
DirExts == {"jsonl", "json", "csv", "xml", "db", "txt"}

\* ---------------------------------------------------------------- records
\* A record is the set of keys it has and the value under "label".
FullRec(t, l) == [has |-> Required(t), label |-> l]
NoLabelRec(t) == [has |-> Required(t) \ {"label"}, label |-> Null]
NoTextRec(t) ==
  [has |-> Required(t) \ {Primary(t)}, label |-> CHOOSE l \in LabelsOf(t) : TRUE]
RecordKinds(t) ==
  {FullRec(t, l) : l \in LabelsOf(t)} \cup {NoLabelRec(t), NoTextRec(t)}

SeqsUpTo(S, n) == UNION {[1..k -> S] : k \in 0..n}

\* A table (csv, .db, a snapshot) has one header: all rows have the same keys.
Homogeneous(recs) == \A i, j \in 1..Len(recs) : recs[i].has = recs[j].has

\* A directory entry as os.listdir names it: its suffix, and whether the
\* file is syntactically broken (only a decoder can find that out).
Entries == {e \in [ext : DirExts, bad : BOOLEAN] : e.bad => e.ext \in Recognized}

\* The records a file of the task can hold when its decoder reads it, the
\* local list data having n records already (for a broken .jsonl file: the
\* lines before the broken one).
Contents(t, e, n) ==
  { recs \in SeqsUpTo(RecordKinds(t), MaxRecs - n) :
      /\ (e.ext \in TableExts \cup DbExts) => Homogeneous(recs)
      /\ (e.bad /\ e.ext \notin WithOpenLineExts) => recs = <<>> }

\* The model configurations a bolt can be built with.
PriorLabel2Id ==
  {EmptyMap, [l \in {"pos", "neg"} |-> IF l = "pos" THEN 0 ELSE 1]}

VARIABLES
  task,         \* which bolt's load_dataset runs
  tokenizer,    \* self.tokenizer is initialised
  model,        \* self.model is supplied
  label2id,     \* self.model.config.label2id
  id2label,     \* self.model.config.id2label
  label2id_before, \* model.config.label2id when the call started
  marker,       \* the directory has the entry dataset_info.json
  snapshot,     \* the rows load_from_disk returns
  dir,          \* os.listdir order of the other entries
  content,      \* content[i]: the records the decoder read from entry i
  pc,           \* position of the call
  idx,          \* position of the for loop over os.listdir
  data,         \* the local list data
  label_to_id,  \* self.label_to_id
  handles,      \* open handles the call holds: <<kind, file index>>
  listed,       \* os.listdir has been called
  decoded,      \* indices of the entries a decoder has been started on
  warned,       \* log.warning("New labels detected ...") was emitted
  writes,       \* assignments to model.config.label2id made by the call
  out,          \* label column of the dataset returned
  err           \* the exception that left the call, "none" if none

vars == <<task, tokenizer, model, label2id, id2label, label2id_before, marker, snapshot, dir,
          content, pc, idx, data, label_to_id, handles, listed, decoded, warned,
          writes, out, err>>

inputs == <<task, tokenizer, model, label2id_before, marker, dir>>

\* ------------------------------------------------------ pure computations
Range(s) == {s[i] : i \in 1..Len(s)}

\* d[k] = v of a Python dict: a new key is added, an old key is overwritten.
Put(d, k, v) == [x \in (DOMAIN d) \cup {k} |-> IF x = k THEN v ELSE d[x]]

\* {label: i for i, label in enumerate(labels)}: the pairs are stored in
\* order, index i counts every element of the sequence from 0.
RECURSIVE EnumerateInto(_, _, _)
EnumerateInto(labels, k, d) ==
  IF k > Len(labels) THEN d
  ELSE EnumerateInto(labels, k + 1, Put(d, labels[k], k - 1))

DictFromEnumerate(labels) == EnumerateInto(labels, 1, EmptyMap)

\* data.append(example) for each record in turn / data.extend(records)
ExtendFront(d, recs) == recs \o d
Extend(d, recs) == d \o recs

\* (example["label"] for example in data)
LabelColumn(recs) == [i \in 1..Len(recs) |-> recs[i].label]

\* {i: label for label, i in label_to_id.items()}
InverseDict(d) ==
  [i \in {d[l] : l \in DOMAIN d} |-> CHOOSE l \in DOMAIN d : d[l] = i]

\* pd.DataFrame(data): the columns are the keys of all records together; a
\* record without a column gets a null cell there.
Columns(recs) == UNION {recs[i].has : i \in 1..Len(recs)}
HasNull(recs, col) == \E i \in 1..Len(recs) : col \notin recs[i].has

\* tokenize_function of the classification loader, applied by Dataset.map to
\* the rows (map does not call it on a dataset without rows).  The result is
\* the error raised, or "none" and the encoded label column.
TokenizeFunction(rows, tok, l2i) ==
  IF rows = <<>> THEN [err |-> "none", out |-> <<>>]
  ELSE IF "text" \notin Columns(rows) THEN [err |-> "KeyError", out |-> <<>>]
  ELSE IF ~tok THEN [err |-> "TypeError", out |-> <<>>]
  ELSE IF HasNull(rows, "text") THEN [err |-> "TokenizerError", out |-> <<>>]
  ELSE IF "label" \notin Columns(rows) THEN [err |-> "KeyError", out |-> <<>>]
  ELSE IF ~l2i.some THEN [err |-> "NoneIndexError", out |-> <<>>]
  ELSE IF \E i \in 1..Len(rows) :
            "label" \notin rows[i].has \/ rows[i].label \notin DOMAIN l2i.val
       THEN [err |-> "KeyError", out |-> <<>>]
  ELSE [err |-> "none",
        out |-> [i \in 1..Len(rows) |-> l2i.val[rows[i].label]]]

\* prepare_train_features of the pairwise loader, applied by Dataset.map.
PrepareTrainFeatures(rows, tok) ==
  IF rows = <<>> THEN [err |-> "none", out |-> <<>>]
  ELSE IF ~tok THEN [err |-> "TokenizerNotInitialized", out |-> <<>>]
  ELSE IF {"premise", "hypothesis"} \cap Columns(rows) # {"premise", "hypothesis"}
       THEN [err |-> "KeyError", out |-> <<>>]
  ELSE IF HasNull(rows, "premise") \/ HasNull(rows, "hypothesis")
       THEN [err |-> "TokenizerError", out |-> <<>>]
  ELSE IF "label" \notin Columns(rows) THEN [err |-> "KeyError", out |-> <<>>]
  ELSE [err |-> "none",
        out |-> [i \in 1..Len(rows) |->
                   IF "label" \in rows[i].has THEN rows[i].label ELSE Null]]

\* The feature preparation each loader hands to Dataset.map.
MapFeatures(t, rows, tok, l2i) ==
  IF t = "classification" THEN TokenizeFunction(rows, tok, l2i)
  ELSE PrepareTrainFeatures(rows, tok)

\* Index of the first record of an XML file that lacks a child element the
\* loop body reads (record.find(..) is None there), 0 if there is none.
FirstIncomplete(t, recs) ==
  IF \E i \in 1..Len(recs) : recs[i].has # Required(t)
  THEN CHOOSE i \in 1..Len(recs) :
         /\ recs[i].has # Required(t)
         /\ \A j \in 1..(i - 1) : recs[j].has = Required(t)
  ELSE 0

\* ------------------------------------------------------------------ Init
Init ==
  /\ task \in Tasks
  /\ tokenizer \in BOOLEAN
  /\ model \in BOOLEAN
  /\ label2id \in PriorLabel2Id
  /\ model = FALSE => label2id = EmptyMap
  /\ id2label = InverseDict(label2id)
  /\ label2id_before = label2id
  /\ marker \in BOOLEAN
  /\ snapshot = <<>>
  /\ dir \in SeqsUpTo(Entries, MaxFiles)
  /\ content = [i \in 1..Len(dir) |-> <<>>]
  /\ pc = "start"
  /\ idx = 0
  /\ data = <<>>
  /\ label_to_id = None
  /\ handles = {}
  /\ listed = FALSE
  /\ decoded = {}
  /\ warned = FALSE
  /\ writes = 0
  /\ out = <<>>
  /\ err = "none"

\* --------------------------------------------------------------- actions
\* The entry the for loop is at.
Current == dir[idx]
InLoop == pc = "loop" /\ idx \in 1..Len(dir)

\* An exception raised inside the try block: control goes to the except
\* clause with that exception.
RaiseTo(e) == pc' = "except" /\ err' = e

\* The value of self.label_to_id after line 80 of the classification loader
\* (the pairwise loader has no such line).
InitialLabelToId ==
  IF task # "classification" THEN label_to_id
  ELSE IF model /\ label2id # EmptyMap THEN Some(label2id) ELSE None

\* os.path.isfile(os.path.join(dataset_path, "dataset_info.json"))
NeverSnapshotPath == FALSE
TakesSnapshotPath == marker

\* classification.py 78-94 / commonsense_reasoning.py 78-88: the data
\* collator, label_to_id, the test for the snapshot marker, os.listdir.
Enter ==
  /\ pc = "start"
  /\ label_to_id' = InitialLabelToId
  /\ IF TakesSnapshotPath
       THEN pc' = "snapshot" /\ UNCHANGED <<listed, idx>>
       ELSE pc' = "loop" /\ listed' = TRUE /\ idx' = 1
  /\ UNCHANGED <<inputs, label2id, id2label, snapshot, content, data, handles,
                 decoded, warned, writes, out, err>>

\* classification.py 91 / commonsense_reasoning.py 80-85:
\* load_from_disk(dataset_path).map(...), returned at once.
LoadSnapshot ==
  /\ pc = "snapshot"
  /\ \E rows \in {r \in SeqsUpTo(RecordKinds(task), MaxRecs) : Homogeneous(r)} :
       LET r == MapFeatures(task, rows, tokenizer, label_to_id) IN
         /\ snapshot' = rows
         /\ IF r.err = "none"
              THEN pc' = "returned" /\ out' = r.out /\ err' = err
              ELSE RaiseTo(r.err) /\ out' = out
  /\ UNCHANGED <<inputs, label2id, id2label, content, idx, data, label_to_id,
                 handles, listed, decoded, warned, writes>>

\* A strict loader: an unrecognised name is an error.
SkipEntryStrict ==
  /\ InLoop
  /\ Current.ext \notin Recognized
  /\ RaiseTo("UnsupportedFile")
  /\ UNCHANGED <<inputs, label2id, id2label, snapshot, content, idx, data,
                 label_to_id, handles, listed, decoded, warned, writes, out>>

\* No branch of the elif chain matches the name: the loop goes on.
SkipEntry ==
  /\ InLoop
  /\ Current.ext \notin Recognized
  /\ idx' = idx + 1
  /\ UNCHANGED <<inputs, label2id, id2label, snapshot, content, pc, data,
                 label_to_id, handles, listed, decoded, warned, writes, out, err>>

\* with open(filepath, "r") as f:  (.jsonl, .json, .yaml, .yml)
OpenFile ==
  /\ InLoop
  /\ Current.ext \in WithOpenLineExts \cup WithOpenWholeExts
  /\ handles' = handles \cup {<<"file", idx>>}
  /\ decoded' = decoded \cup {idx}
  /\ pc' = "reading"
  /\ UNCHANGED <<inputs, label2id, id2label, snapshot, content, idx, data,
                 label_to_id, listed, warned, writes, out, err>>

\* .jsonl: for line in f: data.append(json.loads(line)).  The lines before a
\* broken line are appended before json.loads raises; the with block closes
\* the file on both ways out.
ReadLines ==
  /\ pc = "reading"
  /\ Current.ext \in WithOpenLineExts
  /\ \E recs \in Contents(task, Current, Len(data)) :
       /\ content' = [content EXCEPT ![idx] = recs]
       /\ data' = Extend(data, recs)
  /\ handles' = handles \ {<<"file", idx>>}
  /\ IF Current.bad
       THEN RaiseTo("DecodeError") /\ idx' = idx
       ELSE pc' = "loop" /\ idx' = idx + 1 /\ err' = err
  /\ UNCHANGED <<inputs, label2id, id2label, snapshot, label_to_id, listed,
                 decoded, warned, writes, out>>

\* .json, .yaml, .yml: data.extend(json.load(f)) / data.extend(yaml.safe_load(f))
ReadWhole ==
  /\ pc = "reading"
  /\ Current.ext \in WithOpenWholeExts
  /\ handles' = handles \ {<<"file", idx>>}
  /\ IF Current.bad
       THEN RaiseTo("DecodeError") /\ UNCHANGED <<content, data, idx>>
       ELSE /\ \E recs \in Contents(task, Current, Len(data)) :
                 /\ content' = [content EXCEPT ![idx] = recs]
                 /\ data' = Extend(data, recs)
            /\ pc' = "loop" /\ idx' = idx + 1 /\ err' = err
  /\ UNCHANGED <<inputs, label2id, id2label, snapshot, label_to_id, listed,
                 decoded, warned, writes, out>>

\* .csv, .parquet, .tsv, .xls, .xlsx, .feather: the reader of the table,
\* then data.extend(df.to_dict("records")).
ReadTable ==
  /\ InLoop
  /\ Current.ext \in TableExts
  /\ decoded' = decoded \cup {idx}
  /\ IF Current.bad
       THEN RaiseTo("DecodeError") /\ UNCHANGED <<content, data, idx>>
       ELSE /\ \E recs \in Contents(task, Current, Len(data)) :
                 /\ content' = [content EXCEPT ![idx] = recs]
                 /\ data' = Extend(data, recs)
            /\ pc' = "loop" /\ idx' = idx + 1 /\ err' = err
  /\ UNCHANGED <<inputs, label2id, id2label, snapshot, label_to_id, handles,
                 listed, warned, writes, out>>

\* .xml: ET.parse, then one record per <record> element; a record without
\* one of the children read raises AttributeError after the records before
\* it were appended.
ParseXml ==
  /\ InLoop
  /\ Current.ext \in XmlExts
  /\ decoded' = decoded \cup {idx}
  /\ IF Current.bad
       THEN RaiseTo("DecodeError") /\ UNCHANGED <<content, data, idx>>
       ELSE \E recs \in Contents(task, Current, Len(data)) :
              LET k == FirstIncomplete(task, recs) IN
                /\ content' = [content EXCEPT ![idx] = recs]
                /\ IF k = 0
                     THEN /\ data' = Extend(data, recs)
                          /\ pc' = "loop" /\ idx' = idx + 1 /\ err' = err
                     ELSE /\ data' = Extend(data, SubSeq(recs, 1, k - 1))
                          /\ RaiseTo("AttributeError") /\ idx' = idx
  /\ UNCHANGED <<inputs, label2id, id2label, snapshot, label_to_id, handles,
                 listed, warned, writes, out>>

\* .db: conn = sqlite3.connect(filepath)
ConnectDb ==
  /\ InLoop
  /\ Current.ext \in DbExts
  /\ handles' = handles \cup {<<"conn", idx>>}
  /\ decoded' = decoded \cup {idx}
  /\ pc' = "querying"
  /\ UNCHANGED <<inputs, label2id, id2label, snapshot, content, idx, data,
                 label_to_id, listed, warned, writes, out, err>>

\* .db: pd.read_sql_query("SELECT <required columns> FROM dataset_table;",
\* conn), then data.extend.  The query fails without the table or without a
\* column it names.  Nothing closes conn.
QueryDb ==
  /\ pc = "querying"
  /\ \E recs \in Contents(task, Current, Len(data)) :
       /\ content' = [content EXCEPT ![idx] = recs]
       /\ IF Current.bad \/ (recs # <<>> /\ recs[1].has # Required(task))
            THEN RaiseTo("DecodeError") /\ UNCHANGED <<data, idx>>
            ELSE /\ data' = Extend(data, recs)
                 /\ pc' = "loop" /\ idx' = idx + 1 /\ err' = err
  /\ UNCHANGED <<inputs, label2id, id2label, snapshot, label_to_id, handles,
                 listed, decoded, warned, writes, out>>

\* A loop end that sends both loaders on to the label mapping.
EndLoopAlwaysDerive ==
  /\ pc = "loop"
  /\ idx = Len(dir) + 1
  /\ pc' = "derive"
  /\ UNCHANGED <<inputs, label2id, id2label, snapshot, content, idx, data,
                 label_to_id, handles, listed, decoded, warned, writes, out, err>>

\* The for loop is exhausted: the classification loader goes on to the
\* label mapping, the pairwise loader to the dataset.
EndLoop ==
  /\ pc = "loop"
  /\ idx = Len(dir) + 1
  /\ pc' = IF task = "classification" THEN "derive" ELSE "map"
  /\ UNCHANGED <<inputs, label2id, id2label, snapshot, content, idx, data,
                 label_to_id, handles, listed, decoded, warned, writes, out, err>>

\* The mapping line 148 computes from data.
DerivedLabelToId(recs) == DictFromEnumerate(LabelColumn(recs))

\* A loader that warns about new labels and keeps the index the model had.
DeriveLabelsKeepOld ==
  /\ pc = "derive"
  /\ IF \E i \in 1..Len(data) : "label" \notin data[i].has
       THEN /\ RaiseTo("KeyError")
            /\ UNCHANGED <<label_to_id, label2id, id2label, warned, writes>>
       ELSE LET new == DerivedLabelToId(data) IN
              /\ label_to_id' = Some(new)
              /\ IF model /\ label2id # new /\ label2id # EmptyMap
                   THEN warned' = TRUE /\ UNCHANGED <<label2id, id2label, writes>>
                   ELSE IF model
                   THEN /\ warned' = (label2id # new)
                        /\ label2id' = new
                        /\ id2label' = InverseDict(new)
                        /\ writes' = writes + 1
                   ELSE UNCHANGED <<label2id, id2label, warned, writes>>
              /\ pc' = "map" /\ err' = err
  /\ UNCHANGED <<inputs, snapshot, content, idx, data, handles, listed,
                 decoded, out>>

\* classification.py 146-153: label_to_id from the labels of data, the
\* warning, and the two assignments to the model configuration.
\* example["label"] raises KeyError on a record without that key.
DeriveLabels ==
  /\ pc = "derive"
  /\ IF \E i \in 1..Len(data) : "label" \notin data[i].has
       THEN /\ RaiseTo("KeyError")
            /\ UNCHANGED <<label_to_id, label2id, id2label, warned, writes>>
       ELSE LET new == DerivedLabelToId(data) IN
              /\ label_to_id' = Some(new)
              /\ IF model
                   THEN /\ warned' = (label2id # new)
                        /\ label2id' = new
                        /\ id2label' = InverseDict(new)
                        /\ writes' = writes + 1
                   ELSE UNCHANGED <<label2id, id2label, warned, writes>>
              /\ pc' = "map" /\ err' = err
  /\ UNCHANGED <<inputs, snapshot, content, idx, data, handles, listed,
                 decoded, out>>

\* What is left open when the call returns: nothing in the code closes a
\* connection; an interpreter that counts references finalises it when the
\* frame goes, another one leaves it open.
AfterReturn(h) == {h, {x \in h : x[1] # "conn"}}

\* classification.py 155 / commonsense_reasoning.py 132-137:
\* Dataset.from_pandas(pd.DataFrame(data)).map(...), returned.
MapDataset ==
  /\ pc = "map"
  /\ LET r == MapFeatures(task, data, tokenizer, label_to_id) IN
       IF r.err = "none"
         THEN /\ pc' = "returned" /\ out' = r.out /\ err' = err
              /\ handles' \in AfterReturn(handles)
         ELSE RaiseTo(r.err) /\ UNCHANGED <<out, handles>>
  /\ UNCHANGED <<inputs, label2id, id2label, snapshot, content, idx, data,
                 label_to_id, listed, decoded, warned, writes>>

\* An except clause that logs and returns what was read so far.
ExceptReturnPartial ==
  /\ pc = "except"
  /\ pc' = "returned"
  /\ out' = LabelColumn(data)
  /\ UNCHANGED <<inputs, label2id, id2label, snapshot, content, idx, data,
                 label_to_id, handles, listed, decoded, warned, writes, err>>

\* except Exception as e: log; raise.  The exception leaves the call; its
\* traceback keeps the frame and with it the local conn.
ExceptReraise ==
  /\ pc = "except"
  /\ pc' = "raised"
  /\ UNCHANGED <<inputs, label2id, id2label, snapshot, content, idx, data,
                 label_to_id, handles, listed, decoded, warned, writes, out, err>>

Next ==
  \/ Enter
  \/ LoadSnapshot
  \/ SkipEntry
  \/ OpenFile
  \/ ReadLines
  \/ ReadWhole
  \/ ReadTable
  \/ ParseXml
  \/ ConnectDb
  \/ QueryDb
  \/ EndLoop
  \/ DeriveLabels
  \/ MapDataset
  \/ ExceptReraise

Spec == Init /\ [][Next]_vars

\* ================================================================ claims
Done == pc \in {"returned", "raised"}
Failed == pc \in {"except", "raised"}
PerFile == ~marker
Classification == task = "classification"

\* Number of the first position of l in labels.
FirstAt(labels, l) ==
  CHOOSE i \in 1..Len(labels) :
    labels[i] = l /\ \A j \in 1..(i - 1) : labels[j] # l

\* The index that numbers the distinct labels in first-seen order from 0.
FirstSeenIndex(labels) ==
  [l \in Range(labels) |->
     Cardinality({labels[j] : j \in 1..(FirstAt(labels, l) - 1)})]

\* C1: after a classification load on the per-file path, label_to_id gives
\* the distinct labels of data the numbers 0..U-1 in first-seen order, also
\* when a label occurs in more than one record.
C1_FirstSeenIds ==
  (Classification /\ PerFile /\ pc = "returned") =>
     /\ label_to_id.some
     /\ label_to_id.val = FirstSeenIndex(LabelColumn(data))

\* Concatenation of content[1..n], in order.
RECURSIVE Concat(_, _)
Concat(c, n) == IF n = 0 THEN <<>> ELSE Concat(c, n - 1) \o c[n]

RECURSIVE SumLen(_, _)
SumLen(c, n) == IF n = 0 THEN 0 ELSE SumLen(c, n - 1) + Len(c[n])

\* C5: on the per-file path data is the concatenation of the records read
\* from the entries, in os.listdir order and in the order inside each file,
\* while the loop runs and when the dataset is built; its length is the sum
\* of the record counts of the files.
C5_DataIsConcatenation ==
  (PerFile /\ pc \in {"loop", "derive", "map", "returned"}) =>
     /\ data = Concat(content, idx - 1)
     /\ Len(data) = SumLen(content, Len(content))

\* C5 witness: two files with one record each, the records differing,
\* loaded to the end.
C5_Witness ==
  /\ PerFile /\ pc = "returned"
  /\ Len(dir) = 2 /\ Len(content[1]) = 1 /\ Len(content[2]) = 1
  /\ content[1] # content[2]
  /\ data = content[1] \o content[2]

\* What Dataset.map makes of the snapshot the call loaded.
SnapshotFeatures == MapFeatures(task, snapshot, tokenizer, label_to_id)

DecodeErrors == {"DecodeError", "AttributeError"}

\* C3: when the decoder of an entry fails the call is over: the entry is
\* the last one a decoder was started on, no dataset is returned, the
\* exception that reached the except clause is the one that leaves the
\* call, and no step goes back to an earlier entry.
C3_FailFast ==
  /\ [](Failed =>
          /\ err # "none" /\ out = <<>>
          /\ (err \in DecodeErrors /\ PerFile) =>
                /\ idx \in decoded
                /\ \A j \in (idx + 1)..Len(dir) :
                      j \notin decoded /\ content[j] = <<>>)
  /\ [][Failed =>
          /\ pc' = "raised" /\ err' = err /\ out' = out
          /\ data' = data /\ decoded' = decoded /\ idx' = idx]_vars
  /\ [][idx' >= idx /\ (pc = "raised" => pc' = "raised")]_vars

\* C3 witness: the first of two entries failed to decode; the second one,
\* of a recognised suffix, was never touched.
C3_Witness ==
  /\ pc = "raised" /\ err \in DecodeErrors
  /\ Len(dir) = 2 /\ idx = 1 /\ dir[2].ext \in Recognized /\ 2 \notin decoded

\* The records the call has taken in.
Ingested == IF marker THEN Range(snapshot) ELSE Range(data)

\* C4: a dataset is returned only if every record has all the fields the
\* task requires; a record that lacks one makes the call raise.
C4_MissingFieldRaises ==
  pc = "returned" => \A r \in Ingested : r.has = Required(task)

\* C6: an entry whose suffix no branch recognises is passed over: the step
\* that meets it changes only the loop position, raises nothing, starts no
\* decoder and opens nothing, and data when the loop ends is the
\* concatenation of what the recognised entries held.
RecognizedOnly ==
  [i \in 1..Len(dir) |-> IF dir[i].ext \in Recognized THEN content[i] ELSE <<>>]

C6_UnrecognizedSkipped ==
  /\ [][(InLoop /\ Current.ext \notin Recognized) =>
          /\ idx' = idx + 1 /\ pc' = "loop" /\ err' = "none"
          /\ data' = data /\ decoded' = decoded /\ handles' = handles
          /\ content' = content]_vars
  /\ []((PerFile /\ pc \in {"derive", "map", "returned"}) =>
          /\ data = Concat(RecognizedOnly, Len(dir))
          /\ \A i \in 1..Len(dir) : dir[i].ext \notin Recognized => i \notin decoded)

\* C6 witness: a load that met an unrecognised entry between records and
\* returned the dataset.
C6_Witness ==
  /\ PerFile /\ pc = "returned" /\ data # <<>>
  /\ \E i \in 1..Len(dir) : dir[i].ext \notin Recognized

\* C7: when the call is over, by return or by exception, it holds no open
\* file and no open connection.
C7_HandlesReleased == Done => handles = {}

\* C8: without a tokenizer the call ends in an error and has done nothing
\* before it: it has not listed the directory, started no decoder and
\* written no configuration.
C8_TokenizerCheckedFirst ==
  (Done /\ ~tokenizer) =>
     pc = "raised" /\ ~listed /\ decoded = {} /\ writes = 0

\* C9: after the classification loader has derived the labels on the
\* per-file path with a model, the configuration holds the derived index
\* and its inverse, whatever index the model had before; the warning about
\* a difference does not stop the call.
C9_ConfigHoldsNewIndex ==
  (Classification /\ PerFile /\ model /\ pc \in {"map", "returned"}) =>
     /\ label_to_id.some
     /\ label2id = label_to_id.val
     /\ DOMAIN label2id = Range(LabelColumn(data))
     /\ \A l \in DOMAIN label2id :
           /\ label2id[l] \in DOMAIN id2label
           /\ id2label[label2id[l]] = l
     /\ warned = (label2id_before # label2id)

\* C9 witness: a model that came with another index; the warning was given
\* and the dataset returned.
C9_Witness ==
  /\ Classification /\ PerFile /\ model /\ pc = "returned"
  /\ label2id_before # EmptyMap /\ warned /\ data # <<>>

\* C10: a classification call that starts without an index builds one
\* before it encodes a label, and puts it on the model when there is one:
\* encoding never meets a missing index.
C10_IndexBeforeEncoding ==
  (Classification /\ label2id_before = EmptyMap) =>
     /\ err # "NoneIndexError"
     /\ (pc = "returned" /\ Ingested # {}) =>
           label_to_id.some /\ (model => label2id = label_to_id.val)

\* C11: the model configuration is assigned at most once in a call, only
\* by the classification loader on the per-file path and only after the loop
\* has passed every entry without an error; until then, and in a call that
\* raises while decoding, takes the snapshot path or is the pairwise
\* loader's, label2id and id2label are the ones the model came with.
C11_ConfigWrittenOnceAtEnd ==
  /\ [](/\ writes \in {0, 1}
        /\ writes = 1 =>
              /\ Classification /\ PerFile /\ model
              /\ idx = Len(dir) + 1
              /\ pc \in {"map", "returned", "except", "raised"}
              /\ err \notin DecodeErrors
        /\ writes = 0 =>
              /\ label2id = label2id_before
              /\ id2label = InverseDict(label2id_before)
        /\ (marker \/ ~Classification) => writes = 0
        /\ (Failed /\ PerFile /\ idx <= Len(dir)) => writes = 0)
  /\ [][(label2id' # label2id \/ id2label' # id2label \/ writes' # writes) =>
          pc = "derive" /\ writes = 0 /\ writes' = 1]_vars

\* C11 witness: a classification call on a model that came with an index
\* read records from the first entry, failed on the second, and left the
\* configuration as it was.
C11_Witness ==
  /\ Classification /\ PerFile /\ model /\ pc = "raised"
  /\ label2id_before # EmptyMap /\ err \in DecodeErrors
  /\ idx = 2 /\ data # <<>> /\ writes = 0
  /\ label2id = label2id_before

====
